---- MODULE Spec2Model ----
(***************************************************************************)
(* A model of SRGI_converter.py: the HydroTideArchitect pipeline object.   *)
(*                                                                         *)
(* Units.  Instants are whole hours since an epoch that starts a calendar  *)
(* day; longitudes and latitudes are hundredths of a degree; elevations    *)
(* and amplitudes are whole units.  A Python None / NaN is the empty       *)
(* sequence <<>> and a present value v is <<v>>.                           *)
(***************************************************************************)
EXTENDS Integers, Sequences, FiniteSets, TLC

\* ------------------------------------------------------------- bounds
MaxDays == 4
MaxRange == 1
MaxLead == 1
MaxRows == 2
MaxAmp == 2

\* ------------------------------------------------- program constants
HeaderScan == 20
WitaFrom == 11480
WitFrom == 12900
DefaultLat == -800
Sentinel == 999
Window == 3
HoursPerDay == 24

None == <<>>
Some(v) == <<v>>
Get(o) == o[1]

\* ------------------------------------------------ the raw text, by line
\* A token of the header text: absent, a number as written, or text the
\* regular expression accepts but float() rejects (such as "112.5.").
NoTok == [p |-> "none", v |-> 0]
NumTok(v) == [p |-> "num", v |-> v]
BadTok == [p |-> "bad", v |-> 0]

BlankLine == [kind |-> "blank", lat |-> NoTok, lon |-> NoTok, zm |-> FALSE,
              t |-> 0, z |-> None, ok |-> FALSE]
\* A free-form header line; zm: the text contains "z(m)".
MetaLine(lat, lon, zm) == [kind |-> "meta", lat |-> lat, lon |-> lon, zm |-> zm,
                           t |-> 0, z |-> None, ok |-> FALSE]
FreeLine == MetaLine(NoTok, NoTok, FALSE)
\* The column-header line "Lat Lon Date Time z(m)".
ColsLine == [kind |-> "cols", lat |-> NoTok, lon |-> NoTok, zm |-> TRUE,
             t |-> 0, z |-> None, ok |-> FALSE]
\* A data row "<lat> <lon> <date> <time> <elevation>": t the instant its date
\* and time denote, ok whether they parse, z the elevation (None: missing/NaN).
RowLine(t, z, ok) == [kind |-> "row", lat |-> NoTok, lon |-> NoTok, zm |-> FALSE,
                      t |-> t, z |-> z, ok |-> ok]

RECURSIVE Repeat(_, _)
Repeat(x, n) == IF n = 0 THEN <<>> ELSE <<x>> \o Repeat(x, n - 1)

\* --------------------------------------------------- bounded input sets
\* Rows of one UTC day d with daily pattern r: -1 no row, 0 one row, r > 0 two
\* rows r apart.  The second row is late enough that an offset of 8 or 9 hours
\* moves it into the next local day.
DayRows(d, r) ==
    IF r < 0 THEN <<>>
    ELSE IF r = 0 THEN <<RowLine(HoursPerDay * d + 10, Some(0), TRUE)>>
    ELSE <<RowLine(HoursPerDay * d + 10, Some(0), TRUE),
           RowLine(HoursPerDay * d + 16, Some(r), TRUE)>>

RECURSIVE SeriesRows(_, _)
SeriesRows(pat, d) ==
    IF d > MaxDays THEN <<>> ELSE DayRows(d - 1, pat[d]) \o SeriesRows(pat, d + 1)

BandLons == {11250, 12000, 13000}
LatToks == {NoTok, NumTok(-850), NumTok(0), BadTok}
LonToks == {NoTok, NumTok(-11250), NumTok(11479), NumTok(11480),
            NumTok(12899), NumTok(12900), BadTok}
FixedRows == SeriesRows([d \in 1..MaxDays |-> IF d <= 3 THEN (d % 2) + 1 ELSE -1], 1)
RowKinds == {RowLine(10, Some(1), TRUE), RowLine(10, Some(1), FALSE),
             RowLine(10, None, TRUE)}

\* Well-formed series of 1 to MaxDays observed days under each timezone band.
SeriesContents ==
    { <<MetaLine(NumTok(-850), NumTok(lon), FALSE), ColsLine>> \o SeriesRows(pat, 1) :
        lon \in BandLons,
        pat \in { q \in [1..MaxDays -> -1..MaxRange] : \E d \in 1..MaxDays : q[d] >= 0 } }

\* Header variations in front of a fixed series: leading blank lines, the
\* coordinate line inside or beyond the scanned lines, its tokens.
HeaderContents ==
    { Repeat(BlankLine, lead) \o Repeat(FreeLine, pad)
        \o <<MetaLine(lat, lon, zm), ColsLine>> \o FixedRows :
        lead \in 0..MaxLead, pad \in {0, HeaderScan},
        lat \in LatToks, lon \in LonToks, zm \in BOOLEAN }

\* Coordinates on two header lines.
TwoLineContents ==
    { <<MetaLine(NumTok(-850), lon1, FALSE), MetaLine(lat2, lon2, FALSE), ColsLine>>
        \o FixedRows :
        lon1 \in {NoTok, NumTok(11479), NumTok(12900)},
        lon2 \in {NoTok, NumTok(11480)}, lat2 \in {NoTok, NumTok(0)} }

\* Short series with malformed rows.
RowContents ==
    { <<MetaLine(NumTok(-850), NumTok(11250), FALSE), ColsLine>> \o rows :
        rows \in UNION { [1..n -> RowKinds] : n \in 1..MaxRows } }

Contents == SeriesContents \cup HeaderContents \cup TwoLineContents \cup RowContents

\* ------------------------------------------------------------- state
VARIABLES raw_content, df, metadata, tide_type, formzahl, constituents,
          op, ret, out

vars == <<raw_content, df, metadata, tide_type, formzahl, constituents,
          op, ret, out>>

\* An exact ratio n/d, d > 0, for a float.
Ratio(n, d) == [n |-> n, d |-> d]

\* __init__ with raw_data_string = content.
InitWith(S) ==
    /\ raw_content \in S
    /\ df = None
    /\ metadata = [lat |-> None, lon |-> None, tz_name |-> "UTC", tz_offset |-> 0]
    /\ tide_type = "Unknown"
    /\ formzahl = Ratio(0, 1)
    /\ constituents = <<>>
    /\ op = "__init__"
    /\ ret = "ok"
    /\ out = None

Init == InitWith(Contents)

\* ----------------------------------------------- _detect_timezone_by_coords
\* re.search(r'Lon:\s*([\d\.]+)'): no match on an absent token or a sign.
MatchLon(line) == line.lon.p = "bad" \/ (line.lon.p = "num" /\ line.lon.v >= 0)
\* re.search(r'Lat:\s*([-\d\.]+)').
MatchLat(line) == line.lat.p # "none"

\* The loop over lines[:20]; raised: float() raised ValueError.
RECURSIVE ScanCoords(_, _, _)
ScanCoords(lines, i, acc) ==
    IF i > Len(lines) \/ i > HeaderScan \/ acc.raised THEN acc
    ELSE LET line == lines[i]
             a1 == IF ~MatchLon(line) THEN acc
                   ELSE IF line.lon.p = "bad" THEN [acc EXCEPT !.raised = TRUE]
                   ELSE [acc EXCEPT !.lon = Some(line.lon.v)]
             a2 == IF a1.raised \/ ~MatchLat(line) THEN a1
                   ELSE IF line.lat.p = "bad" THEN [a1 EXCEPT !.raised = TRUE]
                   ELSE [a1 EXCEPT !.lat = Some(line.lat.v)]
         IN ScanCoords(lines, i + 1, a2)

\* Faulty variant: the 114.8 boundary taken into the WIB band.
TimezoneOf_inclusive(lon) ==
    IF lon <= WitaFrom THEN <<"WIB", 7>>
    ELSE IF lon < WitFrom THEN <<"WITA", 8>>
    ELSE <<"WIT", 9>>

TimezoneOf(lon) ==
    IF lon < WitaFrom THEN <<"WIB", 7>>
    ELSE IF WitaFrom <= lon /\ lon < WitFrom THEN <<"WITA", 8>>
    ELSE <<"WIT", 9>>

FallbackTimezone == <<"WIB", 7>>

\* The metadata after the call, and whether it raised.
detect_timezone_by_coords(lines, md) ==
    LET s == ScanCoords(lines, 1, [lon |-> None, lat |-> None, raised |-> FALSE])
        m0 == [md EXCEPT !.lon = s.lon, !.lat = s.lat]
    IN IF s.raised THEN [md |-> m0, raised |-> TRUE]
       ELSE IF s.lon # None
       THEN [md |-> [m0 EXCEPT !.tz_name = TimezoneOf(Get(s.lon))[1],
                               !.tz_offset = TimezoneOf(Get(s.lon))[2]],
             raised |-> FALSE]
       ELSE [md |-> [m0 EXCEPT !.tz_name = FallbackTimezone[1],
                               !.tz_offset = FallbackTimezone[2],
                               !.lat = Some(DefaultLat)],
             raised |-> FALSE]

\* ------------------------------------------------------------ process_data
\* raw_content.strip().split('\n'): leading and trailing blank lines go.
RECURSIVE LStrip(_)
LStrip(ls) == IF ls # <<>> /\ Head(ls).kind = "blank" THEN LStrip(Tail(ls)) ELSE ls
RECURSIVE RStrip(_)
RStrip(ls) ==
    IF ls # <<>> /\ ls[Len(ls)].kind = "blank"
    THEN RStrip(SubSeq(ls, 1, Len(ls) - 1)) ELSE ls
StripSplit(ls) == RStrip(LStrip(ls))

\* 'Lat' in line and 'Lon' in line and 'z(m)' in line
HasTokens(line) ==
    \/ line.kind = "cols"
    \/ line.kind = "meta" /\ line.lat.p # "none" /\ line.lon.p # "none" /\ line.zm

\* The 0-based index of the first such line of lines, 0 when there is none.
header_idx(lines) ==
    IF \E i \in 1..Len(lines) : HasTokens(lines[i])
    THEN (CHOOSE i \in 1..Len(lines) :
            HasTokens(lines[i]) /\ \A j \in 1..(i - 1) : ~HasTokens(lines[j])) - 1
    ELSE 0

\* pd.read_csv(StringIO(raw_content), skiprows = skip): the lines of the
\* unstripped text after the first skip ones, blank lines dropped.
read_csv(raw, skip) ==
    SelectSeq(SubSeq(raw, skip + 1, Len(raw)), LAMBDA l : l.kind # "blank")

\* pd.to_datetime raises on a row whose Date and Time do not parse; a header
\* line read as a row (five words, "Date Time" for its timestamp) is such a row.
ToDatetimeRaises(rows) ==
    \E i \in 1..Len(rows) : rows[i].kind # "row" \/ ~rows[i].ok

Observation(row, offset) ==
    [datetime_utc |-> row.t, datetime_local |-> row.t + offset,
     elevation_m |-> Get(row.z)]

\* temp_df[...].copy() then dropna(subset=['elevation_m']).
RECURSIVE BuildFrame(_, _)
BuildFrame(rows, offset) ==
    IF rows = <<>> THEN <<>>
    ELSE (IF Head(rows).z = None THEN <<>> ELSE <<Observation(Head(rows), offset)>>)
         \o BuildFrame(Tail(rows), offset)

\* Faulty variant: self.df assigned before the timestamps are converted.
process_data_assigns_early ==
    LET lines == StripSplit(raw_content)
        det == detect_timezone_by_coords(lines, metadata)
        rows == read_csv(raw_content, header_idx(lines) + 1)
    IN /\ op' = "process_data"
       /\ metadata' = det.md
       /\ UNCHANGED <<raw_content, tide_type, formzahl, constituents>>
       /\ IF det.raised
          THEN ret' = "raise" /\ out' = None /\ UNCHANGED df
          ELSE /\ df' = Some(BuildFrame(rows, det.md.tz_offset))
               /\ IF ToDatetimeRaises(rows)
                  THEN ret' = "None" /\ out' = None
                  ELSE /\ ret' = "df"
                       /\ out' = Some([rows |-> Len(BuildFrame(rows, det.md.tz_offset))])

process_data ==
    LET lines == StripSplit(raw_content)
        det == detect_timezone_by_coords(lines, metadata)
        rows == read_csv(raw_content, header_idx(lines) + 1)
    IN /\ op' = "process_data"
       /\ metadata' = det.md
       /\ UNCHANGED <<raw_content, tide_type, formzahl, constituents>>
       /\ IF det.raised
          THEN ret' = "raise" /\ out' = None /\ UNCHANGED df
          ELSE IF ToDatetimeRaises(rows)
          THEN ret' = "None" /\ out' = None /\ UNCHANGED df
          ELSE /\ df' = Some(BuildFrame(rows, det.md.tz_offset))
               /\ ret' = "df"
               /\ out' = Some([rows |-> Len(BuildFrame(rows, det.md.tz_offset))])

\* -------------------------------------------------------- analyze_tide_type
Targets == {"M2", "S2", "K1", "O1"}
Others == {"N2"}

\* What utide.solve does, seen from the caller: it raises, or returns
\* coef['name'] / coef['A'] as a mapping A from constituent names to amplitudes.
SolverFailure == [ok |-> FALSE, A |-> <<>>]
SolverResult(A) == [ok |-> TRUE, A |-> A]

\* Every target fitted, with each amplitude in 0..MaxAmp.
FullResults == { SolverResult(A) : A \in [Targets -> 0..MaxAmp] }
\* Any subset of the constituents fitted, each with unit amplitude.
PartialResults ==
    { SolverResult([k \in names |-> 1]) : names \in SUBSET (Targets \cup Others) }

AllOutcomes == {SolverFailure} \cup FullResults \cup PartialResults

FewOutcomes ==
    { SolverFailure,
      SolverResult([k \in Targets |-> IF k = "M2" THEN MaxAmp ELSE 1]) }

\* lat_val = self.metadata['lat'] if self.metadata['lat'] else -8.0
lat_val(md) ==
    IF md.lat # None /\ Get(md.lat) # 0 THEN Get(md.lat) ELSE DefaultLat

\* found_amps after the loop over zip(names, amplitudes).
found_amps(A) == [k \in Targets |-> IF k \in DOMAIN A THEN A[k] ELSE 0]

\* self.constituents after the loop: target names are added or overwritten,
\* nothing is removed.
StoreConstituents(old, A) ==
    [k \in DOMAIN old \cup (DOMAIN A \cap Targets) |->
        IF k \in DOMAIN A THEN A[k] ELSE old[k]]

\* Faulty variant: O1 left out of the numerator.
Formzahl_without_O1(A) ==
    LET numerator == found_amps(A)["K1"]
        denominator == found_amps(A)["M2"] + found_amps(A)["S2"]
    IN IF denominator = 0 THEN Ratio(Sentinel, 1) ELSE Ratio(numerator, denominator)

Formzahl(A) ==
    LET numerator == found_amps(A)["K1"] + found_amps(A)["O1"]
        denominator == found_amps(A)["M2"] + found_amps(A)["S2"]
    IN IF denominator = 0 THEN Ratio(Sentinel, 1) ELSE Ratio(numerator, denominator)

\* Faulty variant: the 0.25 boundary left out of the semidiurnal interval.
Classify_open(F) ==
    IF 0 < F.n /\ 4 * F.n < F.d THEN "Semidiurnal (Ganda)"
    ELSE IF F.d <= 4 * F.n /\ 2 * F.n <= 3 * F.d
    THEN "Mixed, prevailing semidiurnal (Campuran condong Ganda)"
    ELSE IF 3 * F.d < 2 * F.n /\ F.n <= 3 * F.d
    THEN "Mixed, prevailing diurnal (Campuran condong Tunggal)"
    ELSE IF F.n > 3 * F.d THEN "Diurnal (Tunggal)"
    ELSE "Undefined"

\* The Wyrtki (1961) chain on F = n/d, d > 0; the decimal thresholds are
\* 1/4, 3/2 and 3.
Classify(F) ==
    IF 0 < F.n /\ 4 * F.n <= F.d THEN "Semidiurnal (Ganda)"
    ELSE IF F.d < 4 * F.n /\ 2 * F.n <= 3 * F.d
    THEN "Mixed, prevailing semidiurnal (Campuran condong Ganda)"
    ELSE IF 3 * F.d < 2 * F.n /\ F.n <= 3 * F.d
    THEN "Mixed, prevailing diurnal (Campuran condong Tunggal)"
    ELSE IF F.n > 3 * F.d THEN "Diurnal (Tunggal)"
    ELSE "Undefined"

\* Faulty variant: the fallback latitude written back into the metadata.
analyze_tide_type_writes_lat(r) ==
    /\ op' = "analyze_tide_type"
    /\ UNCHANGED <<raw_content, df>>
    /\ IF df = None
       THEN /\ ret' = "guard" /\ out' = None
            /\ UNCHANGED <<metadata, tide_type, formzahl, constituents>>
       ELSE /\ metadata' = [metadata EXCEPT !.lat = Some(lat_val(metadata))]
            /\ out' = Some([lat |-> lat_val(metadata), A |-> r.A])
            /\ IF ~r.ok
               THEN /\ ret' = "solver_failed"
                    /\ UNCHANGED <<tide_type, formzahl, constituents>>
               ELSE /\ ret' = "ok"
                    /\ constituents' = StoreConstituents(constituents, r.A)
                    /\ formzahl' = Formzahl(r.A)
                    /\ tide_type' = Classify(Formzahl(r.A))

\* r: the outcome of the solver call, should the call be reached.
analyze_tide_type(r) ==
    /\ op' = "analyze_tide_type"
    /\ UNCHANGED <<raw_content, df, metadata>>
    /\ IF df = None
       THEN /\ ret' = "guard" /\ out' = None
            /\ UNCHANGED <<tide_type, formzahl, constituents>>
       ELSE IF ~r.ok
       THEN /\ ret' = "solver_failed"
            /\ out' = Some([lat |-> lat_val(metadata), A |-> r.A])
            /\ UNCHANGED <<tide_type, formzahl, constituents>>
       ELSE /\ ret' = "ok"
            /\ out' = Some([lat |-> lat_val(metadata), A |-> r.A])
            /\ constituents' = StoreConstituents(constituents, r.A)
            /\ formzahl' = Formzahl(r.A)
            /\ tide_type' = Classify(Formzahl(r.A))

\* ----------------------------------------------- recommend_fieldwork_window
\* resample('D') on datetime_local: the calendar day of a local instant.
DayOf(t) == t \div HoursPerDay

SetMin(S) == CHOOSE x \in S : \A y \in S : x <= y
SetMax(S) == CHOOSE x \in S : \A y \in S : y <= x

\* daily['range'] of day d: max - min of the day's elevations, NaN for a day
\* with no observation.
DailyRange(rows, d) ==
    LET zs == { rows[i].elevation_m :
                  i \in { j \in 1..Len(rows) : DayOf(rows[j].datetime_local) = d } }
    IN IF zs = {} THEN None ELSE Some(SetMax(zs) - SetMin(zs))

FirstDay(rows) == SetMin({ DayOf(rows[i].datetime_local) : i \in 1..Len(rows) })
LastDay(rows) == SetMax({ DayOf(rows[i].datetime_local) : i \in 1..Len(rows) })

RECURSIVE SumRanges(_, _, _)
SumRanges(rows, d, n) ==
    IF n = 0 THEN 0 ELSE Get(DailyRange(rows, d)) + SumRanges(rows, d - 1, n - 1)

\* rolling(window=3).sum() at day d: NaN unless the window lies within the
\* frame and holds no NaN.
RollingSum(rows, d) ==
    IF /\ d - (Window - 1) >= FirstDay(rows)
       /\ \A k \in 0..(Window - 1) : DailyRange(rows, d - k) # None
    THEN Some(SumRanges(rows, d, Window)) ELSE None

\* Faulty variant: a later day replaces an equal earlier one.
RECURSIVE ArgMaxFrom_last(_, _, _)
ArgMaxFrom_last(rows, d, best) ==
    IF d > LastDay(rows) THEN best
    ELSE LET s == RollingSum(rows, d)
         IN ArgMaxFrom_last(rows, d + 1,
                IF s # None /\ (best = None \/ Get(s) >= Get(RollingSum(rows, Get(best))))
                THEN Some(d) ELSE best)

\* idxmax() scans the days in order, skips NaN and keeps the first largest sum:
\* best is the day kept so far (None: none yet).
RECURSIVE ArgMaxFrom(_, _, _)
ArgMaxFrom(rows, d, best) ==
    IF d > LastDay(rows) THEN best
    ELSE LET s == RollingSum(rows, d)
         IN ArgMaxFrom(rows, d + 1,
                IF s # None /\ (best = None \/ Get(s) > Get(RollingSum(rows, Get(best))))
                THEN Some(d) ELSE best)

\* NaN (None) when every sum is NaN.
IdxMax(rows) == ArgMaxFrom(rows, FirstDay(rows), None)

\* The window printed for best_end_date.
WindowOf(rows, best_end_date, tz) ==
    [start_date |-> best_end_date - 2, best_end_date |-> best_end_date,
     total |-> Get(RollingSum(rows, best_end_date)), tz |-> tz]

recommend_fieldwork_window ==
    /\ op' = "recommend_fieldwork_window"
    /\ UNCHANGED <<raw_content, df, metadata, tide_type, formzahl, constituents>>
    /\ IF df = None THEN ret' = "guard" /\ out' = None
       \* idxmax() of an empty frame raises ValueError
       ELSE IF Get(df) = <<>> THEN ret' = "raise" /\ out' = None
       ELSE LET best == IdxMax(Get(df))
            IN IF best = None THEN ret' = "nan" /\ out' = None
               ELSE /\ ret' = "window"
                    /\ out' = Some(WindowOf(Get(df), Get(best), metadata.tz_name))

\* ------------------------------------------------------------------ exports
Shown(rows) == [i \in 1..Len(rows) |-> <<rows[i].datetime_local, rows[i].elevation_m>>]

RECURSIVE SumElev(_)
SumElev(rows) == IF rows = <<>> THEN 0 ELSE Head(rows).elevation_m + SumElev(Tail(rows))

export_excel_pro ==
    /\ op' = "export_excel_pro"
    /\ UNCHANGED <<raw_content, df, metadata, tide_type, formzahl, constituents>>
    /\ IF df = None THEN ret' = "guard" /\ out' = None
       ELSE /\ ret' = "written"
            /\ out' = Some([Data |-> Shown(Get(df)),
                            Harmonik |-> IF constituents # <<>>
                                         THEN Some(<<constituents, formzahl, tide_type>>)
                                         ELSE None,
                            title |-> <<metadata.tz_name, formzahl, tide_type>>])

export_html_pro ==
    /\ op' = "export_html_pro"
    /\ UNCHANGED <<raw_content, df, metadata, tide_type, formzahl, constituents>>
    /\ IF df = None THEN ret' = "guard" /\ out' = None
       ELSE /\ ret' = "written"
            /\ out' = Some([trace |-> Shown(Get(df)),
                            msl |-> IF Get(df) = <<>> THEN None
                                    ELSE Some(Ratio(SumElev(Get(df)), Len(Get(df)))),
                            title |-> <<metadata.lat, metadata.lon, metadata.tz_name,
                                        tide_type, formzahl>>])

\* ----------------------------------------------------------- specifications
Next ==
    \/ process_data
    \/ \E r \in FewOutcomes : analyze_tide_type(r)
    \/ recommend_fieldwork_window
    \/ export_excel_pro
    \/ export_html_pro

Spec == Init /\ [][Next]_vars

\* The classifier under every solver outcome, on one well-formed input and one
\* that does not parse.
HarmonicContents ==
    { <<MetaLine(NumTok(-850), NumTok(11250), FALSE), ColsLine>> \o rows :
        rows \in { FixedRows, <<RowLine(10, Some(1), FALSE)>> } }

InitHarmonic == InitWith(HarmonicContents)

NextHarmonic ==
    \/ process_data
    \/ \E r \in AllOutcomes : analyze_tide_type(r)

SpecHarmonic == InitHarmonic /\ [][NextHarmonic]_vars

\* ------------------------------------------------------------------ claims
Analysed == op = "analyze_tide_type" /\ ret = "ok"
SolverCalled == op = "analyze_tide_type" /\ ret \in {"ok", "solver_failed"}
Reporters == {"recommend_fieldwork_window", "export_excel_pro", "export_html_pro"}

\* C1: after an analysis that computed a Formzahl F, tide_type is the label of
\* the one Wyrtki interval holding F: (0, 1/4] semidiurnal, (1/4, 3/2] mixed
\* prevailing semidiurnal, (3/2, 3] mixed prevailing diurnal, above 3 diurnal,
\* at most 0 undefined.
C1_WyrtkiIntervals ==
    Analysed =>
        /\ formzahl.d > 0
        /\ (formzahl.n <= 0) <=> (tide_type = "Undefined")
        /\ (0 < formzahl.n /\ 4 * formzahl.n <= formzahl.d)
              <=> (tide_type = "Semidiurnal (Ganda)")
        /\ (formzahl.d < 4 * formzahl.n /\ 2 * formzahl.n <= 3 * formzahl.d)
              <=> (tide_type = "Mixed, prevailing semidiurnal (Campuran condong Ganda)")
        /\ (3 * formzahl.d < 2 * formzahl.n /\ formzahl.n <= 3 * formzahl.d)
              <=> (tide_type = "Mixed, prevailing diurnal (Campuran condong Tunggal)")
        /\ (3 * formzahl.d < formzahl.n) <=> (tide_type = "Diurnal (Tunggal)")

\* An analysis whose Formzahl is exactly 1/4, on the closed end of its interval.
C1_Witness ==
    /\ Analysed
    /\ 4 * formzahl.n = formzahl.d
    /\ tide_type = "Semidiurnal (Ganda)"

\* The longitude written in the header: the last Lon: number among the scanned
\* lines of the stripped text.
HeaderLonLines ==
    { i \in 1..Len(StripSplit(raw_content)) :
        i <= HeaderScan /\ StripSplit(raw_content)[i].lon.p = "num" }
HeaderLatLines ==
    { i \in 1..Len(StripSplit(raw_content)) :
        i <= HeaderScan /\ StripSplit(raw_content)[i].lat.p = "num" }
HeaderLon == StripSplit(raw_content)[SetMax(HeaderLonLines)].lon.v
HeaderLat == StripSplit(raw_content)[SetMax(HeaderLatLines)].lat.v

ObsDays == { Get(df)[i].datetime_local \div 24 : i \in 1..Len(Get(df)) }
ElevsOn(d) ==
    { Get(df)[i].elevation_m :
        i \in { j \in 1..Len(Get(df)) : Get(df)[j].datetime_local \div 24 = d } }
RangeOn(d) == SetMax(ElevsOn(d)) - SetMin(ElevsOn(d))
TrailingDefined(d) == ElevsOn(d) # {} /\ ElevsOn(d - 1) # {} /\ ElevsOn(d - 2) # {}
TrailingSum(d) == RangeOn(d) + RangeOn(d - 1) + RangeOn(d - 2)
SpanDays == SetMax(ObsDays) - SetMin(ObsDays) + 1
\* e is the first day holding the largest defined trailing sum.
FirstMaximal(e) ==
    /\ TrailingDefined(e)
    /\ \A d \in ObsDays :
          TrailingDefined(d) =>
              \/ TrailingSum(d) < TrailingSum(e)
              \/ TrailingSum(d) = TrailingSum(e) /\ e <= d
SelectsFirstMaximal ==
    /\ ret = "window"
    /\ FirstMaximal(Get(out).best_end_date)
    /\ Get(out).start_date = Get(out).best_end_date - 2
    /\ Get(out).best_end_date >= SetMin(ObsDays) + 2
    /\ Get(out).total = TrailingSum(Get(out).best_end_date)
Recommended == op = "recommend_fieldwork_window" /\ df # None /\ Get(df) # <<>>

\* C3 as stated: on every series spanning at least 3 local calendar days (here
\* even with observations on 3 of them) the recommender reports the window
\* ending on the first day of maximal trailing 3-day range sum.
C3_Original ==
    (Recommended /\ SpanDays >= 3 /\ Cardinality(ObsDays) >= 3) => SelectsFirstMaximal

\* C3 amended: on every series holding 3 consecutive local calendar days with an
\* observation each, the recommender reports the window [end - 2, end] whose end
\* is the first day of maximal defined trailing 3-day range sum; the first two
\* days are never selected.
C3_FirstMaximalWindow ==
    (Recommended /\ \E d \in ObsDays : TrailingDefined(d)) => SelectsFirstMaximal

\* A window was reported where two days tie for the largest sum.
C3_Witness ==
    /\ Recommended /\ ret = "window"
    /\ \E d \in ObsDays :
          /\ d > Get(out).best_end_date
          /\ TrailingDefined(d)
          /\ TrailingSum(d) = Get(out).total

\* The input format of section 6: header lines carrying Lat:<number> and
\* Lon:<number>, the column-header line, then well-formed rows only.
InFormat(raw) ==
    \E h \in 1..Len(raw) :
        /\ raw[h].kind = "cols"
        /\ h > 1
        /\ \A i \in 1..(h - 1) :
              /\ raw[i].kind = "meta"
              /\ raw[i].lat.p \in {"none", "num"}
              /\ raw[i].lon.p \in {"none", "num"}
        /\ \E i \in 1..(h - 1) : raw[i].lat.p = "num"
        /\ \E i \in 1..(h - 1) : raw[i].lon.p = "num" /\ raw[i].lon.v >= 0
        /\ \A i \in (h + 1)..Len(raw) :
              raw[i].kind = "row" /\ raw[i].ok /\ raw[i].z # None
DataRows(raw) == SelectSeq(raw, LAMBDA l : l.kind = "row")

\* C4: on an input in the documented format with N rows, process_data yields N
\* observations, one per row and in the rows' order, each with datetime_local =
\* datetime_utc + tz_offset hours.
C4_RoundTrip ==
    (op = "process_data" /\ InFormat(raw_content)) =>
        /\ ret = "df"
        /\ df # None
        /\ Len(Get(df)) = Len(DataRows(raw_content))
        /\ \A i \in 1..Len(DataRows(raw_content)) :
              /\ Get(df)[i].datetime_utc = DataRows(raw_content)[i].t
              /\ Get(df)[i].elevation_m = Get(DataRows(raw_content)[i].z)
              /\ Get(df)[i].datetime_local =
                    Get(df)[i].datetime_utc + metadata.tz_offset

\* C5: when the latest analyze_tide_type call ended in a solver failure, the
\* instance holds the "Unknown" classification with no value of an earlier
\* successful analysis.
C5_UnknownAfterFailure ==
    (op = "analyze_tide_type" /\ ret = "solver_failed") =>
        /\ tide_type = "Unknown"
        /\ formzahl = Ratio(0, 1)
        /\ constituents = <<>>

\* C6: a process_data call that fails to parse leaves no data, and from then on
\* analyze_tide_type and the three reporters return through their null-data
\* guard: no output, no field changed.
C6_NoOpsAfterFailedParse ==
    /\ []((op = "process_data" /\ ret = "None") => df = None)
    /\ [][(df = None /\ op' \in Reporters \cup {"analyze_tide_type"}) =>
            /\ ret' = "guard"
            /\ out' = None
            /\ UNCHANGED <<raw_content, df, metadata, tide_type, formzahl,
                           constituents>>]_vars

\* A reporter returned through its guard after a process_data call that set
\* the timezone and then failed to parse.
C6_Witness ==
    /\ op = "export_html_pro" /\ ret = "guard"
    /\ df = None
    /\ metadata.tz_name = "WIB"

\* C7: on a parsed series with no defined trailing 3-day sum (empty, a single
\* row, fewer than 3 days) the recommender reports no window and does not raise.
C7_InsufficientData ==
    (/\ op = "recommend_fieldwork_window"
     /\ df # None
     /\ \A d \in ObsDays : ~TrailingDefined(d)) => ret = "nan"

\* C8: after an analysis, formzahl = (K1 + O1) / (M2 + S2) over the amplitudes
\* the solver returned, a missing constituent counting 0 and every other one
\* ignored, and the sentinel 999 when M2 + S2 = 0.
Returned(k) == IF k \in DOMAIN Get(out).A THEN Get(out).A[k] ELSE 0
C8_Formzahl ==
    Analysed =>
        IF Returned("M2") + Returned("S2") = 0
        THEN formzahl = Ratio(999, 1)
        ELSE /\ formzahl.d > 0
             /\ formzahl.n * (Returned("M2") + Returned("S2"))
                  = (Returned("K1") + Returned("O1")) * formzahl.d

\* An analysis of a solver result without M2 and with another constituent.
C8_Witness ==
    /\ Analysed
    /\ "M2" \notin DOMAIN Get(out).A
    /\ {"S2", "K1", "O1", "N2"} \subseteq DOMAIN Get(out).A
    /\ formzahl = Ratio(2, 1)

\* C9: the latitude handed to the solver is the header's latitude whenever the
\* header has one, and -8.0 only when it has none.
C9_SolverLatitude ==
    SolverCalled =>
        Get(out).lat = IF HeaderLatLines = {} THEN -800 ELSE HeaderLat

\* C10: analyze_tide_type leaves df and metadata as they were; the recommender
\* and the two exports leave df, metadata, tide_type, formzahl and constituents
\* as they were.
C10_ForwardOnly ==
    [][/\ op' = "analyze_tide_type" => UNCHANGED <<df, metadata>>
       /\ op' \in Reporters =>
            UNCHANGED <<df, metadata, tide_type, formzahl, constituents>>]_vars

\* An export wrote its report after a successful analysis.
C10_Witness ==
    /\ op = "export_excel_pro" /\ ret = "written"
    /\ tide_type # "Unknown"
    /\ Get(out).Harmonik # None
====
